---- MODULE Spec2Model ----
(***************************************************************************)
(* The tick driver of src/javascript/main.js: module.exports.loop, called  *)
(* by the host once per tick, with the process-wide state wasm_module and  *)
(* pause, the host's Memory.creeps / Game.creeps / Game.cpu.bucket /       *)
(* require.cache, and the agent module's three capabilities.               *)
(***************************************************************************)
EXTENDS Integers, Sequences, FiniteSets, TLC

\* ------------------------------------------------------------------ bounds
\* At most MaxLoads fresh module instances are loaded in one process life.
MaxLoads == 2

\* The creep names that occur.
Ids == {"a", "b"}
InstIds == 1..MaxLoads
\* Per-creep memory values.
MemVals == {"m1", "m2"}
\* Values of Game.cpu.bucket the host supplies.
Buckets == {499, 500, 10000}

\* --------------------------------------------------------------- constants
MODULE_NAME == "screeps-rs"
\* The bucket threshold of the budget gate.
BUCKET_MIN == 500

\* -------------------------------------------------------------- JS values
Undefined == [t |-> "undefined"]
Null == [t |-> "null"]
Obj(i) == [t |-> "object", id |-> i]
\* if (wasm_module): undefined and null are falsy, a module object is truthy.
Truthy(v) == v.t = "object"

\* What a module step can do when called: return, or throw one of these values.
\*   "Error"     an Error object (has message and stack)
\*   "boom"      a string (no stack property: .stack is undefined)
\*   "null", "undefined"   (reading .stack of them throws a TypeError)
\*   "Symbol"    a symbol (Array.prototype.join on it throws a TypeError)
Thrown == {"Error", "boom", "null", "undefined", "Symbol"}
NoExc == "none"
Outcomes == {"ok"} \cup Thrown
Steps == {"require", "initialize_instance", "setup", "loop"}
StepOrder == <<"require", "initialize_instance", "setup", "loop">>

\* The behaviours of the module in one tick: what each step does if it is called.
\* Execution stops at the first throw, so behaviours that differ only in steps
\* after the first throwing one are the same; one of each class is kept.
Behaviours ==
    { b \in [Steps -> Outcomes] :
        \A i \in 1..4 : \A j \in 1..4 :
            (i < j /\ b[StepOrder[i]] # "ok") => b[StepOrder[j]] = "ok" }

\* error.stack: the value read, for the values whose property read succeeds.
Stack(v) == IF v = "Error" THEN "Error: boom at <stack>" ELSE "undefined"
\* Reading a property of null or undefined throws a TypeError.
PropertyReadThrows(v) == v \in {"null", "undefined"}
\* args.join(' ') for the single argument v: null and undefined join to "".
Join(v) ==
    IF v \in {"null", "undefined"} THEN ""
    ELSE IF v = "Error" THEN "Error: boom"
    ELSE v
\* A symbol cannot be converted to a string: join throws a TypeError.
JoinThrows(v) == v = "Symbol"

\* ------------------------------------------------------------------ state
VARIABLES
    wasm_module,    \* line 2: undefined, null or the loaded module object
    pause,          \* line 3
    Memory_creeps,  \* Memory.creeps: creep name -> memory value
    Game_creeps,    \* Game.creeps: the names of the live creeps
    require_cache,  \* require.cache: module name -> cached module instance
    inst,           \* per module instance of this process: calls made, steps completed
    loads,          \* number of fresh instances loaded so far in this process
    lastFailed,     \* a module step threw in the latest onTick() call
    recycled,       \* "never": the first process; "just": the host has recycled the
                    \* process and has not called onTick() since; "past": it has
    tick            \* the onTick() call that has just returned: inputs, pre-state, outputs

vars == <<wasm_module, pause, Memory_creeps, Game_creeps, require_cache, inst, loads,
          lastFailed, recycled, tick>>

NoCache == [n \in {} |-> 0]
FreshInst == [initCalls |-> 0, initDone |-> FALSE, setupCalls |-> 0, setupDone |-> FALSE]
NoMemory == [n \in {} |-> "m1"]
NoBehaviour == [s \in Steps |-> "ok"]

NoTick ==
    [ran |-> FALSE, wasm0 |-> Undefined, pause0 |-> FALSE, mem0 |-> NoMemory,
     live0 |-> {}, cache0 |-> NoCache, loads0 |-> 0, afterFailure |-> FALSE,
     afterRecycle |-> FALSE, memSeen |-> <<>>,
     bucket |-> 0, beh |-> NoBehaviour,
     calls |-> <<>>, log |-> <<>>, notes |-> <<>>, exc |-> NoExc, escaped |-> FALSE]

\* ------------------------------------------------- the handler, as a function
\* The machine the handler runs on: the process and host state it reads and
\* writes, and what it has emitted so far.
\*   exc      the value thrown inside the try block and not yet caught
\*   escaped  an exception left module.exports.loop

\* CleanUp with the test inverted: deletes the entries of the live creeps.
CleanUp_Inverted(mem, live) == [n \in (DOMAIN mem) \ live |-> mem[n]]

\* lines 19-23: delete every Memory.creeps entry whose creep is not alive.
CleanUp(mem, live) == [n \in (DOMAIN mem) \cap live |-> mem[n]]

\* BudgetLow with the threshold off by one.
BudgetLow_OffByOne(bucket) == bucket < BUCKET_MIN - 1

\* line 30
BudgetLow(bucket) == bucket < BUCKET_MIN

\* line 31
GateMessage == "we are running out of time, pausing compile!"

\* A call of the module or of the module cache is recorded, with Memory.creeps
\* as it is when the call is made.
Called(m, step) == [m EXCEPT !.calls = Append(@, step), !.seen = Append(@, m.mem)]

\* Evict without the delete: the cached entry stays.
Evict_Skipped(m) == m

\* lines 36-38
Evict(m) ==
    IF MODULE_NAME \in DOMAIN m.cache
    THEN [Called(m, "evict") EXCEPT !.cache = NoCache]
    ELSE m

\* line 40: require returns the cached instance if there is one, and otherwise
\* loads a fresh instance and caches it; the assignment to wasm_module happens
\* only if require returns.
Require(m, out) ==
    LET c == Called(m, "require") IN
    IF MODULE_NAME \in DOMAIN m.cache
    THEN [c EXCEPT !.wasm = Obj(m.cache[MODULE_NAME])]
    ELSE IF out # "ok"
    THEN [c EXCEPT !.exc = out]
    ELSE [c EXCEPT !.wasm = Obj(m.loads + 1),
                   !.cache = [n \in {MODULE_NAME} |-> m.loads + 1],
                   !.loads = @ + 1]

\* line 42
InitializeInstance(m, out) ==
    LET i == m.wasm.id
        c == [Called(m, "initialize_instance") EXCEPT !.inst[i].initCalls = @ + 1] IN
    IF out # "ok" THEN [c EXCEPT !.exc = out]
    ELSE [c EXCEPT !.inst[i].initDone = TRUE]

\* line 44
Setup(m, out) ==
    LET i == m.wasm.id
        c == [Called(m, "setup") EXCEPT !.inst[i].setupCalls = @ + 1] IN
    IF out # "ok" THEN [c EXCEPT !.exc = out]
    ELSE [c EXCEPT !.inst[i].setupDone = TRUE]

\* lines 27 and 46
Loop(m, out) ==
    LET c == Called(m, "loop") IN
    IF out # "ok" THEN [c EXCEPT !.exc = out] ELSE c

\* ColdStart with setup() called before initialize_instance().
ColdStart_SetupFirst(m, beh) ==
    LET a == Require(Evict(m), beh["require"])
        b == IF a.exc = NoExc THEN Setup(a, beh["setup"]) ELSE a
        c == IF b.exc = NoExc THEN InitializeInstance(b, beh["initialize_instance"]) ELSE b
    IN  IF c.exc = NoExc THEN Loop(c, beh["loop"]) ELSE c

\* lines 35-46: each statement runs only if none before it threw.
ColdStart(m, beh) ==
    LET a == Require(Evict(m), beh["require"])
        b == IF a.exc = NoExc THEN InitializeInstance(a, beh["initialize_instance"]) ELSE a
        c == IF b.exc = NoExc THEN Setup(b, beh["setup"]) ELSE b
    IN  IF c.exc = NoExc THEN Loop(c, beh["loop"]) ELSE c

\* TryBody running setup() again before loop() on a loaded module.
TryBody_SetupAgain(m, bucket, beh) ==
    IF Truthy(m.wasm)
    THEN LET a == Setup(m, beh["setup"]) IN
         IF a.exc = NoExc THEN Loop(a, beh["loop"]) ELSE a
    ELSE IF BudgetLow(bucket) THEN [m EXCEPT !.log = Append(@, GateMessage)]
    ELSE ColdStart(m, beh)

\* TryBody with the budget test reversed: the load is attempted only when the
\* bucket is low.
TryBody_GateReversed(m, bucket, beh) ==
    IF Truthy(m.wasm) THEN Loop(m, beh["loop"])
    ELSE IF ~BudgetLow(bucket) THEN [m EXCEPT !.log = Append(@, GateMessage)]
    ELSE ColdStart(m, beh)

\* TryBody with the budget test made before the test of wasm_module.
TryBody_GateFirst(m, bucket, beh) ==
    IF BudgetLow(bucket) THEN [m EXCEPT !.log = Append(@, GateMessage)]
    ELSE IF Truthy(m.wasm) THEN Loop(m, beh["loop"])
    ELSE ColdStart(m, beh)

\* lines 26-47: the body of the try block.
TryBody(m, bucket, beh) ==
    IF Truthy(m.wasm) THEN Loop(m, beh["loop"])
    ELSE IF BudgetLow(bucket) THEN [m EXCEPT !.log = Append(@, GateMessage)]
    ELSE ColdStart(m, beh)

\* console_error without the call of Game.notify.
console_error_LogOnly(m, v) == [m EXCEPT !.log = Append(@, v)]

\* lines 8-11: console.log the argument, then Game.notify its join; if the join
\* throws, the exception leaves console_error after the log.
console_error(m, v) ==
    LET l == [m EXCEPT !.log = Append(@, v)] IN
    IF JoinThrows(v) THEN [l EXCEPT !.escaped = TRUE]
    ELSE [l EXCEPT !.notes = Append(@, Join(v))]

\* Catch setting pause to true instead of false.
Catch_Pauses(m) ==
    LET e == m.exc
        a == console_error(m, "resetting VM next tick.")
        b == IF a.escaped THEN a ELSE console_error(a, e)
        c == IF b.escaped THEN b
             ELSE IF PropertyReadThrows(e) THEN [b EXCEPT !.escaped = TRUE]
             ELSE console_error(b, Stack(e))
    IN  IF c.escaped THEN c
        ELSE [c EXCEPT !.wasm = Null, !.pause = TRUE]

\* lines 48-54: the catch block. An exception thrown inside it leaves the
\* handler, and the statements after it do not run.
Catch(m) ==
    LET e == m.exc
        a == console_error(m, "resetting VM next tick.")
        b == IF a.escaped THEN a ELSE console_error(a, e)
        c == IF b.escaped THEN b
             ELSE IF PropertyReadThrows(e) THEN [b EXCEPT !.escaped = TRUE]
             ELSE console_error(b, Stack(e))
    IN  IF c.escaped THEN c
        ELSE [c EXCEPT !.wasm = Null, !.pause = FALSE]

\* lines 25-54
TryCatch(m, bucket, beh) ==
    LET r == TryBody(m, bucket, beh) IN
    IF r.exc = NoExc THEN r ELSE Catch(r)

\* module.exports.loop with the pause test after the clean-up.
loop_PauseAfterCleanUp(m, live, bucket, beh) ==
    LET c == [m EXCEPT !.mem = CleanUp(m.mem, live)] IN
    IF m.pause THEN c ELSE TryCatch(c, bucket, beh)

\* module.exports.loop with the clean-up moved after the try statement.
loop_CleanUpLast(m, live, bucket, beh) ==
    IF m.pause THEN m
    ELSE LET r == TryCatch(m, bucket, beh) IN
         IF r.escaped THEN r ELSE [r EXCEPT !.mem = CleanUp(r.mem, live)]

\* lines 13-55: module.exports.loop
loop(m, live, bucket, beh) ==
    IF m.pause THEN m
    ELSE TryCatch([m EXCEPT !.mem = CleanUp(m.mem, live)], bucket, beh)

\* The machine at the start of a tick.
Machine ==
    [wasm |-> wasm_module, pause |-> pause, mem |-> Memory_creeps, cache |-> require_cache,
     inst |-> inst, loads |-> loads,
     calls |-> <<>>, seen |-> <<>>, log |-> <<>>, notes |-> <<>>, exc |-> NoExc,
     escaped |-> FALSE]

\* ---------------------------------------------------------------- actions
\* The process state is as lines 2-3 leave it; the host's memory and creeps
\* are empty, and nothing is cached.
InitRest ==
    /\ wasm_module = Undefined
    /\ Memory_creeps = NoMemory
    /\ Game_creeps = {}
    /\ require_cache = NoCache
    /\ inst = [i \in InstIds |-> FreshInst]
    /\ loads = 0
    /\ lastFailed = FALSE
    /\ recycled = "never"
    /\ tick = NoTick

Init == pause = FALSE /\ InitRest

\* The handler started with the pause switch of line 3 in either position:
\* nothing in the file sets pause to true, so a paused driver is one whose
\* line 3 reads "let pause = true".
InitAnyPause == pause \in BOOLEAN /\ InitRest

\* The host calls module.exports.loop once, with the bucket it has and a
\* module that behaves as beh. A tick that would load one more fresh instance
\* than MaxLoads is left out.
OnTick ==
    /\ ~tick.ran
    /\ \E bucket \in Buckets, beh \in Behaviours :
        /\ Truthy(wasm_module) \/ loads < MaxLoads
        /\ LET r == loop(Machine, Game_creeps, bucket, beh) IN
            /\ wasm_module' = r.wasm
            /\ pause' = r.pause
            /\ Memory_creeps' = r.mem
            /\ require_cache' = r.cache
            /\ inst' = r.inst
            /\ loads' = r.loads
            /\ lastFailed' = (r.exc # NoExc)
            /\ recycled' = IF recycled = "just" THEN "past" ELSE recycled
            /\ tick' = [ran |-> TRUE, wasm0 |-> wasm_module, pause0 |-> pause,
                        mem0 |-> Memory_creeps, live0 |-> Game_creeps,
                        cache0 |-> require_cache, loads0 |-> loads,
                        afterFailure |-> lastFailed,
                        afterRecycle |-> (recycled = "just"), memSeen |-> r.seen,
                        bucket |-> bucket, beh |-> beh,
                        calls |-> r.calls, log |-> r.log, notes |-> r.notes,
                        exc |-> r.exc, escaped |-> r.escaped]
        /\ UNCHANGED Game_creeps

\* The call has returned to the host (or has thrown into it): the tick is over.
EndTick ==
    /\ tick.ran
    /\ tick' = NoTick
    /\ UNCHANGED <<wasm_module, pause, Memory_creeps, Game_creeps, require_cache, inst, loads,
                   lastFailed, recycled>>

\* Between two ticks the game goes on: a creep is spawned,
Spawn ==
    /\ ~tick.ran
    /\ \E n \in Ids \ Game_creeps : Game_creeps' = Game_creeps \cup {n}
    /\ UNCHANGED <<wasm_module, pause, Memory_creeps, require_cache, inst, loads, lastFailed,
                   recycled, tick>>

\* a creep dies,
Die ==
    /\ ~tick.ran
    /\ \E n \in Game_creeps : Game_creeps' = Game_creeps \ {n}
    /\ UNCHANGED <<wasm_module, pause, Memory_creeps, require_cache, inst, loads, lastFailed,
                   recycled, tick>>

\* and the memory of a creep is written.
WriteMemory ==
    /\ ~tick.ran
    /\ \E n \in Ids, v \in MemVals :
        Memory_creeps' = [k \in (DOMAIN Memory_creeps) \cup {n} |->
                             IF k = n THEN v ELSE Memory_creeps[k]]
    /\ UNCHANGED <<wasm_module, pause, Game_creeps, require_cache, inst, loads, lastFailed,
                   recycled, tick>>

\* Between two ticks the host recycles the process: main.js is evaluated
\* again, so lines 2-3 run again, and the new process has an empty module
\* cache and none of the old process's module instances; Memory.creeps and
\* the game persist. No code of main.js runs at the end of the old process.
Recycle ==
    /\ ~tick.ran
    /\ wasm_module' = Undefined
    /\ pause' = FALSE
    /\ require_cache' = NoCache
    /\ inst' = [i \in InstIds |-> FreshInst]
    /\ loads' = 0
    /\ recycled' = "just"
    /\ UNCHANGED <<Memory_creeps, Game_creeps, lastFailed, tick>>

\* The steps of one process life.
NextInProcess == OnTick \/ EndTick \/ Spawn \/ Die \/ WriteMemory

Next == NextInProcess \/ Recycle

Spec == Init /\ [][Next]_vars

\* One process life, started with the pause switch in either position.
SpecAnyPause == InitAnyPause /\ [][NextInProcess]_vars

\* module.exports.loop runs to completion: every call returns to the host.
LiveSpec == Init /\ [][Next]_vars /\ WF_vars(EndTick)

\* ------------------------------------------------------------ properties
\* Vocabulary of the properties: all of it reads the tick record and the state.
Unset(v) == ~Truthy(v)
\* A module step threw in the call that has just returned.
Threw == tick.exc # NoExc
\* The instance v has had initialize_instance() and setup() complete.
FullyInitialized(v) == Truthy(v) /\ inst[v.id].initDone /\ inst[v.id].setupDone
\* The module steps a cold start calls under beh: StepOrder up to and including
\* the first step that throws.
ThrowingSteps(beh) == { i \in 1..4 : beh[StepOrder[i]] # "ok" }
LastStep(beh) ==
    IF ThrowingSteps(beh) = {} THEN 4
    ELSE CHOOSE i \in ThrowingSteps(beh) : \A j \in ThrowingSteps(beh) : i <= j
ExpectedSteps(beh) == SubSeq(StepOrder, 1, LastStep(beh))
\* The eviction a cold start makes: one, iff an entry was cached.
ExpectedEvict(cache) == IF MODULE_NAME \in DOMAIN cache THEN <<"evict">> ELSE <<>>
\* The call was a cold start: not paused, no module, bucket at or over the threshold.
ColdStartTick ==
    tick.ran /\ ~tick.pause0 /\ Unset(tick.wasm0) /\ tick.bucket >= 500

\* C1: at every tick boundary wasm_module is unset or refers to an instance
\* whose initialize_instance() and setup() both completed.
C1_NoPartialInstance == Truthy(wasm_module) => FullyInitialized(wasm_module)

\* C2: no error ever escapes onTick(), whatever value a module step throws.
C2_NoEscape == tick.ran => ~tick.escaped

\* C3: when a module step throws, on return wasm_module is unset and pause
\* is false.
C3_ResetAfterThrow == (tick.ran /\ Threw) => (Unset(wasm_module) /\ pause = FALSE)

\* C4 (as claimed): on a tick in which a module step throws, at least two
\* messages are logged and exactly one notification is sent.
C4_OneNotification ==
    (tick.ran /\ Threw) => (Len(tick.log) >= 2 /\ Len(tick.notes) = 1)

\* C4 (amended): on a tick in which a module step throws, the fixed message
\* and the thrown value are logged first, at least two messages are logged and
\* at least one notification is sent; every console_error call that returns
\* sends one notification, so an Error or a string thrown gives three logged
\* messages and three notifications, null or undefined two and two, and a
\* symbol two logged messages and one notification.
C4_Diagnostics ==
    (tick.ran /\ Threw) =>
        /\ Len(tick.log) >= 2 /\ Len(tick.notes) >= 1
        /\ tick.log[1] = "resetting VM next tick." /\ tick.log[2] = tick.exc
        /\ tick.notes[1] = "resetting VM next tick."
        /\ tick.exc \in {"Error", "boom"} =>
              /\ Len(tick.log) = 3 /\ Len(tick.notes) = 3
              /\ tick.notes[2] = Join(tick.exc)
        /\ tick.exc \in {"null", "undefined"} =>
              Len(tick.log) = 2 /\ Len(tick.notes) = 2
        /\ tick.exc = "Symbol" => (Len(tick.log) = 2 /\ Len(tick.notes) = 1)

\* C4 witness: setup() threw the string "boom" at bucket 10000 and three
\* notifications went out.
C4_Witness ==
    /\ tick.ran /\ tick.beh["setup"] = "boom" /\ tick.bucket = 10000
    /\ tick.exc = "boom" /\ Len(tick.notes) = 3

\* C5: with no module loaded and bucket >= 500 (500 included), one call evicts
\* the cached entry if there is one, then calls require, initialize_instance,
\* setup and loop, in this order and each once, up to the first step that
\* throws; if none throws, wasm_module is the freshly loaded, fully initialized
\* instance on return, and a later call on a loaded module whose loop() does
\* not throw leaves wasm_module as it was.
C5_ColdStartSequence ==
    /\ ColdStartTick =>
          /\ tick.calls = ExpectedEvict(tick.cache0) \o ExpectedSteps(tick.beh)
          /\ ~Threw =>
                /\ FullyInitialized(wasm_module)
                /\ wasm_module = Obj(loads)
                /\ require_cache = [n \in {MODULE_NAME} |-> loads]
                /\ MODULE_NAME \in DOMAIN tick.cache0 =>
                      tick.cache0[MODULE_NAME] # loads
    /\ (tick.ran /\ Truthy(tick.wasm0) /\ ~Threw) => wasm_module = tick.wasm0

\* C5 witness: a cold start at bucket exactly 500, with an older instance in
\* the cache, made all five calls and kept the new instance.
C5_Witness ==
    /\ ColdStartTick /\ tick.bucket = 500 /\ MODULE_NAME \in DOMAIN tick.cache0
    /\ tick.calls = <<"evict", "require", "initialize_instance", "setup", "loop">>
    /\ Truthy(wasm_module)

\* C6: with no module loaded and bucket < 500, one call logs exactly one line,
\* notifies nobody, makes no module or cache call, and leaves wasm_module
\* unset and pause as it was.
C6_BudgetGate ==
    (tick.ran /\ ~tick.pause0 /\ Unset(tick.wasm0) /\ tick.bucket < 500) =>
        /\ tick.log = <<GateMessage>>
        /\ tick.notes = <<>>
        /\ tick.calls = <<>>
        /\ wasm_module = tick.wasm0
        /\ pause = tick.pause0
        /\ require_cache = tick.cache0
        /\ ~tick.escaped

\* C6 witness: a call at bucket 499 after a failed load (an entry is cached
\* and wasm_module is null) logged once.
C6_Witness ==
    /\ tick.ran /\ tick.bucket = 499 /\ tick.wasm0 = Null
    /\ MODULE_NAME \in DOMAIN tick.cache0 /\ Len(tick.log) = 1

\* C7: with a module loaded, one call calls loop() once and nothing else (no
\* initialize_instance, setup, evict or require), and the cache is untouched;
\* so initialize_instance() and setup() are each called at most once on any
\* instance.
C7_SteadyState ==
    /\ (tick.ran /\ ~tick.pause0 /\ Truthy(tick.wasm0)) =>
          (tick.calls = <<"loop">> /\ require_cache = tick.cache0)
    /\ \A i \in InstIds : inst[i].initCalls <= 1 /\ inst[i].setupCalls <= 1

\* C7 witness: a call on a loaded module, at a bucket below the threshold
\* and with a module whose setup() would throw, called loop() alone.
C7_Witness ==
    /\ tick.ran /\ Truthy(tick.wasm0) /\ tick.bucket = 499
    /\ tick.beh["setup"] # "ok" /\ tick.calls = <<"loop">>
    /\ inst[tick.wasm0.id].setupCalls = 1

\* C8: after an unpaused call, every name that was in Memory.creeps and not
\* in Game.creeps is gone from Memory.creeps, every name in both is still
\* there with its value, and Game.creeps is as it was.
C8_MemoryHygiene ==
    (tick.ran /\ ~tick.pause0) =>
        /\ \A n \in DOMAIN tick.mem0 :
              /\ n \notin tick.live0 => n \notin DOMAIN Memory_creeps
              /\ n \in tick.live0 =>
                    (n \in DOMAIN Memory_creeps /\ Memory_creeps[n] = tick.mem0[n])
        /\ Game_creeps = tick.live0

\* C8 witness: memory {a, b} with a alive and b dead became {a} with a's value.
C8_Witness ==
    /\ tick.ran /\ ~tick.pause0
    /\ DOMAIN tick.mem0 = {"a", "b"} /\ tick.live0 = {"a"}
    /\ DOMAIN Memory_creeps = {"a"} /\ Memory_creeps["a"] = "m2"

\* C9: a call with pause true changes nothing: Memory.creeps, the cache,
\* wasm_module and pause are as before, no module step is called, nothing is
\* logged or notified.
C9_PausedNoEffect ==
    (tick.ran /\ tick.pause0) =>
        /\ Memory_creeps = tick.mem0
        /\ Game_creeps = tick.live0
        /\ require_cache = tick.cache0
        /\ wasm_module = tick.wasm0
        /\ pause = tick.pause0
        /\ tick.calls = <<>> /\ tick.log = <<>> /\ tick.notes = <<>>
        /\ ~tick.escaped

\* C9 witness: a paused call with a dead creep's entry in memory and a full
\* bucket returned with the entry still there.
C9_Witness ==
    /\ tick.ran /\ tick.pause0 /\ tick.bucket = 10000
    /\ "b" \in DOMAIN tick.mem0 /\ "b" \notin tick.live0
    /\ "b" \in DOMAIN Memory_creeps

\* C10: the call after a call in which a module step threw, if its bucket is
\* >= 500, goes through the cold start (evict, require, initialize_instance,
\* setup, loop, up to the first throw) and, if no step throws, ends with
\* wasm_module a fully initialized instance.
C10_RetryAfterFailure ==
    (tick.ran /\ tick.afterFailure /\ ~tick.pause0 /\ tick.bucket >= 500) =>
        /\ tick.calls = ExpectedEvict(tick.cache0) \o ExpectedSteps(tick.beh)
        /\ ~Threw => FullyInitialized(wasm_module)

\* The entries of mem whose creep is in live.
LiveEntries(mem, live) == [n \in { k \in DOMAIN mem : k \in live } |-> mem[n]]

\* C11: on every unpaused call the dead creeps' entries are removed before
\* any module or cache call is made and whatever the call does afterwards:
\* also when the budget gate stops it, when a module step throws, and when the
\* failure handler runs or fails.
C11_HygieneFirst ==
    (tick.ran /\ ~tick.pause0) =>
        /\ Memory_creeps = LiveEntries(tick.mem0, tick.live0)
        /\ \A i \in 1..Len(tick.memSeen) :
              tick.memSeen[i] = LiveEntries(tick.mem0, tick.live0)

\* C11 witness: a call in which setup() threw, with a dead creep's entry in
\* memory before it, made its module calls on the cleaned memory.
C11_Witness ==
    /\ tick.ran /\ Threw /\ tick.beh["setup"] # "ok"
    /\ "b" \in DOMAIN tick.mem0 /\ "b" \notin tick.live0
    /\ Len(tick.memSeen) >= 3 /\ "b" \notin DOMAIN tick.memSeen[1]
    /\ "b" \notin DOMAIN Memory_creeps

\* C12: pause is false in every reachable state, through failures and process
\* recycles; so no call is made with pause true and every call cleans the
\* memory.
C12_NeverPaused ==
    /\ pause = FALSE
    /\ tick.ran =>
          (~tick.pause0 /\ Memory_creeps = LiveEntries(tick.mem0, tick.live0))

\* C12 witness: in a recycled process a call whose failure handler ran to its
\* end (it assigns pause) left pause false.
C12_Witness ==
    /\ recycled = "past" /\ tick.ran /\ Threw /\ ~tick.escaped
    /\ wasm_module = Null /\ pause = FALSE

\* C13: with a module loaded, a call calls loop() whatever the bucket is,
\* below 500 too, and does not log the budget warning.
C13_GateOnlyWhenUnloaded ==
    (tick.ran /\ ~tick.pause0 /\ Truthy(tick.wasm0)) =>
        /\ \E i \in 1..Len(tick.calls) : tick.calls[i] = "loop"
        /\ \A i \in 1..Len(tick.log) : tick.log[i] # GateMessage

\* C13 witness: a call on a loaded module at bucket 499 called loop() and
\* logged nothing.
C13_Witness ==
    /\ tick.ran /\ Truthy(tick.wasm0) /\ tick.bucket = 499
    /\ tick.calls = <<"loop">> /\ tick.log = <<>>

\* C14: every load is a fresh load: when require returns in a cold start, the
\* instance it returned (the one now cached) is one that did not exist before
\* the call, not the instance wasm_module held or the cache held before, and
\* no step had been called on it before this call.
C14_FreshLoad ==
    (tick.ran /\ Unset(tick.wasm0) /\ tick.beh["require"] = "ok"
       /\ \E i \in 1..Len(tick.calls) : tick.calls[i] = "require") =>
        /\ loads = tick.loads0 + 1
        /\ require_cache = [n \in {MODULE_NAME} |-> tick.loads0 + 1]
        /\ MODULE_NAME \in DOMAIN tick.cache0 =>
              require_cache[MODULE_NAME] # tick.cache0[MODULE_NAME]
        /\ Truthy(wasm_module) => wasm_module = Obj(tick.loads0 + 1)
        /\ inst[loads].initCalls <= 1 /\ inst[loads].setupCalls <= 1

\* C14 witness: after a failure that left the failed instance in the cache,
\* the next cold start evicted it and loaded another instance.
C14_Witness ==
    /\ tick.ran /\ tick.afterFailure /\ tick.wasm0 = Null
    /\ tick.cache0 = [n \in {MODULE_NAME} |-> 1]
    /\ Len(tick.calls) = 5 /\ tick.calls[1] = "evict" /\ wasm_module = Obj(2)

\* The number of calls of loop() in the call that has just returned.
LoopCalls == Cardinality({ i \in 1..Len(tick.calls) : tick.calls[i] = "loop" })

\* C15: one call invokes loop() at most once, and exactly once when it ends
\* with wasm_module set; a call that ends with wasm_module unset made no
\* module call or had a module step throw.
C15_LoopOncePerTick ==
    tick.ran =>
        /\ LoopCalls <= 1
        /\ Truthy(wasm_module) => LoopCalls = 1
        /\ Unset(wasm_module) => (tick.calls = <<>> \/ Threw)

\* C16: after a process recycle the first call with bucket >= 500 runs the
\* cold start (require, initialize_instance, setup, loop, up to the first
\* throw), and in every state after a recycle wasm_module is unset or fully
\* initialized.
C16_RecoversFromRecycle ==
    /\ (tick.ran /\ tick.afterRecycle /\ tick.bucket >= 500) =>
          tick.calls = ExpectedEvict(tick.cache0) \o ExpectedSteps(tick.beh)
    /\ recycled # "never" => (Truthy(wasm_module) => FullyInitialized(wasm_module))

\* C17 (as claimed): if calls with a bucket of 500 or more are made again and
\* again, and from some call on no module step throws, then from some point
\* on wasm_module is set for ever.
C17_LoadedForEver ==
    ( /\ []<>(tick.ran /\ tick.bucket >= 500)
      /\ <>[](~lastFailed) )
    => <>[]Truthy(wasm_module)

\* C17 (amended): if calls with a bucket of 500 or more are made again and
\* again, from some call on no module step throws, and from some point on
\* the host no longer recycles the process, then from some point on
\* wasm_module is set for ever.
C17_EventuallyLoaded ==
    ( /\ []<>(tick.ran /\ tick.bucket >= 500)
      /\ <>[](~lastFailed)
      /\ <>[](recycled # "just") )
    => <>[]Truthy(wasm_module)

\* C17 witness: after a failure and a gated tick, a cold start loaded and
\* fully initialized the second instance, and the bucket then dropped again.
C17_Witness ==
    /\ tick.ran /\ Truthy(tick.wasm0) /\ tick.bucket = 499 /\ ~Threw
    /\ wasm_module = Obj(2) /\ FullyInitialized(wasm_module)
    /\ inst[1].initCalls = 1

====
